---------------------------- MODULE Spec2Model ----------------------------
(***************************************************************************)
(* A model of the two Grant Tracker scripts:                               *)
(*   poc/create_spreadsheet.py  provisions a spreadsheet (create, headers, *)
(*                              formatting, dropdown validation, sharing)  *)
(*   poc/sheets_poc.py          authenticates and reads a spreadsheet      *)
(* Each run is a single sequential process.  A blocking remote call is two *)
(* steps: the call is issued (appended to calls, inflight = TRUE) and the  *)
(* remote service answers (a response or a raised exception).              *)
(*                                                                         *)
(* Python values: None is the empty tuple, a present value v is <<v>>.     *)
(* Python list indexes are 0-based; TLA+ sequences are 1-based, so the     *)
(* element with Python index i is s[i + 1].                                *)
(* An A1 range such as "Status!A1" is the record                           *)
(* [sheet |-> "Status", col |-> "A", row |-> 1]; a string the program      *)
(* types in is the sequence of its characters' Unicode code points         *)
(* ("a b" is <<97, 32, 98>>).                                              *)
(***************************************************************************)
EXTENDS Integers, Sequences, FiniteSets, TLC

\* ------------------------------------------------------------------ bounds
\* Most sheets in the response of spreadsheets.create.
MaxSheets == 3
\* Sheet ids the service may assign: 0 .. MaxSheetId.
MaxSheetId == 1
\* Longest line typed at the share prompt.
MaxInputLen == 2
\* Most sheets of the spreadsheet sheets_poc.py reads.
MaxPocSheets == 2

\* ------------------------------------------------------------ Python values
None == <<>>
Some(v) == <<v>>
Val(x) == x[1]

\* Python truth value of an optional int: None and 0 are false.
TruthyInt(x) == x # None /\ Val(x) # 0
\* Python truth value of an optional string: None and "" are false.
TruthyStr(x) == x # None /\ Val(x) # ""

\* ------------------------------------------------- create_spreadsheet.py data
GRANTS_COLUMNS ==
    << "ID", "Title", "Organization", "Status", "Amount", "Primary_Contact",
       "Other_Contacts", "Year", "Beneficiary", "Tags", "Cat_A_Percent",
       "Cat_B_Percent", "Cat_C_Percent", "Cat_D_Percent" >>

STATUS_VALUES ==
    << "Initial Contact", "Meeting", "Proposal Development",
       "Stakeholder Review", "Approved", "Notification", "Signing",
       "Disbursement", "Active", "Finished", "Rejected", "Deferred" >>

DEFAULT_TAGS == << "Python", "Rust", "Security", "Infrastructure" >>

\* The body of spreadsheets.create.
spreadsheet_body ==
    [ title  |-> "Grant Tracker",
      sheets |-> << [title |-> "Grants", index |-> 0],
                    [title |-> "Status", index |-> 1],
                    [title |-> "Tags",   index |-> 2] >> ]

\* [[s] for s in xs]: one single-cell row per element.
Rows(xs) == [i \in 1..Len(xs) |-> << xs[i] >>]

\* The data list of populate_sheets.
populate_data ==
    << [ range  |-> [sheet |-> "Grants", col |-> "A", row |-> 1],
         values |-> << GRANTS_COLUMNS >> ],
       [ range  |-> [sheet |-> "Status", col |-> "A", row |-> 1],
         values |-> << << "Status" >> >> \o Rows(STATUS_VALUES) ],
       [ range  |-> [sheet |-> "Tags", col |-> "A", row |-> 1],
         values |-> << << "Name" >> >> \o Rows(DEFAULT_TAGS) ] >>

\* ---- format_sheets
\* A list of pairs instead of a dict: a repeated title is appended again.
DictPutAppends(d, k, v) == Append(d, << k, v >>)

\* d[k] = v on a Python dict kept as a sequence of <<key, value>> in
\* insertion order: an existing key keeps its place and takes the new value.
DictPut(d, k, v) ==
    IF \E i \in 1..Len(d) : d[i][1] = k
    THEN [i \in 1..Len(d) |-> IF d[i][1] = k THEN << k, v >> ELSE d[i]]
    ELSE Append(d, << k, v >>)

DictHas(d, k) == \E i \in 1..Len(d) : d[i][1] = k

DictGet(d, k) == d[CHOOSE i \in 1..Len(d) : d[i][1] = k][2]

RECURSIVE BuildSheetIds(_, _)
BuildSheetIds(sheets, d) ==
    IF sheets = <<>> THEN d
    ELSE BuildSheetIds(Tail(sheets),
                       DictPut(d, Head(sheets).title, Head(sheets).sheetId))

\* sheet_ids of format_sheets: title -> sheetId.
SheetIds(sheet_metadata) == BuildSheetIds(sheet_metadata, <<>>)

\* The two header requests format_sheets appends for one sheet id.
HeaderRequests(sheet_id) ==
    << [ kind            |-> "repeatCell",
         sheetId         |-> sheet_id,
         startRowIndex   |-> 0,
         endRowIndex     |-> 1,
         bold            |-> TRUE,
         backgroundColor |-> "0.9,0.9,0.9",
         fields          |-> "userEnteredFormat(textFormat,backgroundColor)" ],
       [ kind           |-> "updateSheetProperties",
         sheetId        |-> sheet_id,
         frozenRowCount |-> 1,
         fields         |-> "gridProperties.frozenRowCount" ] >>

RECURSIVE AllHeaderRequests(_)
AllHeaderRequests(d) ==
    IF d = <<>> THEN <<>>
    ELSE HeaderRequests(Head(d)[2]) \o AllHeaderRequests(Tail(d))

\* (col_idx, width) pairs.
column_widths ==
    << <<0, 150>>, <<1, 200>>, <<2, 150>>, <<3, 120>>, <<4, 100>>,
       <<5, 150>>, <<6, 200>>, <<7, 60>>, <<8, 120>>, <<9, 150>>,
       <<10, 100>>, <<11, 100>>, <<12, 100>>, <<13, 100>> >>

WidthRequest(grants_id, col_idx, width) ==
    [ kind       |-> "updateDimensionProperties",
      sheetId    |-> grants_id,
      dimension  |-> "COLUMNS",
      startIndex |-> col_idx,
      endIndex   |-> col_idx + 1,
      pixelSize  |-> width,
      fields     |-> "pixelSize" ]

WidthRequests(grants_id) ==
    [i \in 1..Len(column_widths) |->
        WidthRequest(grants_id, column_widths[i][1], column_widths[i][2])]

\* The request list of format_sheets; the caller has checked DictHas.
FormatRequests(sheet_metadata) ==
    AllHeaderRequests(SheetIds(sheet_metadata))
        \o WidthRequests(DictGet(SheetIds(sheet_metadata), "Grants"))

\* ---- add_data_validation
\* The loop with break: the id of the first sheet titled "Grants", or None.
RECURSIVE FindGrantsId(_)
FindGrantsId(sheets) ==
    IF sheets = <<>> THEN None
    ELSE IF Head(sheets).title = "Grants" THEN Some(Head(sheets).sheetId)
    ELSE FindGrantsId(Tail(sheets))

\* "if not grants_id": the branch that prints the warning and returns.
SkipsValidation(grants_id) == ~TruthyInt(grants_id)

\* One setDataValidation request: a one-column range from startRowIndex on
\* with no end row, and the source "=<sheet>!$A$2:$A" as a range record.
ValidationRequest(grants_id, col, src_sheet) ==
    [ kind             |-> "setDataValidation",
      sheetId          |-> grants_id,
      startRowIndex    |-> 1,
      startColumnIndex |-> col,
      endColumnIndex   |-> col + 1,
      type             |-> "ONE_OF_RANGE",
      source           |-> [sheet |-> src_sheet, col |-> "A", row |-> 2],
      showCustomUi     |-> TRUE,
      strict           |-> FALSE ]

\* Column letters counted from 1 instead of 0.
ValidationRequestsOneBased(grants_id) ==
    << ValidationRequest(grants_id, 4, "Status"),
       ValidationRequest(grants_id, 10, "Tags") >>

ValidationRequests(grants_id) ==
    << ValidationRequest(grants_id, 3, "Status"),
       ValidationRequest(grants_id, 9, "Tags") >>

\* ---- the share prompt
\* The code points c with chr(c).isspace(): tab, line feed, vertical tab,
\* form feed, carriage return, the four separators 28..31, space, next line,
\* no-break space and the Unicode space separators.
Whitespace ==
    { 9, 10, 11, 12, 13, 28, 29, 30, 31, 32, 133, 160, 5760 }
        \cup (8192..8202) \cup { 8232, 8233, 8239, 8287, 12288 }

\* str.strip() with no argument: leading and trailing whitespace removed.
RECURSIVE LStrip(_)
LStrip(s) ==
    IF s # <<>> /\ Head(s) \in Whitespace THEN LStrip(Tail(s)) ELSE s

RECURSIVE RStrip(_)
RStrip(s) ==
    IF s # <<>> /\ s[Len(s)] \in Whitespace
    THEN RStrip(SubSeq(s, 1, Len(s) - 1)) ELSE s

Strip(s) == RStrip(LStrip(s))


\* ------------------------------------------------------------------- state
VARIABLES
    script,          \* which script runs
    use_oauth,       \* "--oauth" in sys.argv
    keys_dir,        \* KEYS_DIR: [exists, json_files (glob finds a *.json)]
    sa_file,         \* SERVICE_ACCOUNT_FILE.exists()
    token_file,      \* TOKEN_FILE at the start: None, or Some(stored credentials)
    CLIENT_ID,       \* os.getenv("CLIENT_ID"): None or Some(string)
    CLIENT_SECRET,   \* os.getenv("CLIENT_SECRET")
    pc,              \* the statement of main the run is at
    status,          \* "running", "exit0", "exit1" (sys.exit(1)), "exception"
    inflight,        \* the last call of calls has not returned yet
    calls,           \* the remote API calls issued, in order
    out,             \* the kinds of message printed so far
    caught,          \* exceptions caught by an except clause so far
    remote,          \* the spreadsheet held by the remote service
    creds,           \* None or Some(credentials)
    handles,         \* the API client handles built
    spreadsheet_id,  \* None or Some(id)
    metadata,        \* None or Some(sheets of the create response)
    typed,           \* None, or Some(the line input() returned)
    share_email,     \* None, or Some(the stripped prompt input)
    sheet_names,     \* explore_values_api: the titles to read
    idx,             \* loop position (Python index of the next item)
    auth,            \* get_oauth_credentials: what it did, in order
    written          \* what each write left in TOKEN_FILE, in order

inputs == << script, use_oauth, keys_dir, sa_file, token_file, CLIENT_ID,
            CLIENT_SECRET >>
control == << pc, status >>
locals == << creds, handles, spreadsheet_id, metadata, typed, share_email,
             sheet_names, idx >>
vars == << inputs, written, control, inflight, calls, out, caught, remote,
           locals, auth >>

Titles == { "Grants", "Status", "Tags" }
SheetProps == [title : Titles, sheetId : 0..MaxSheetId]
\* The sheets a spreadsheets.create response may list.
Metadatas == UNION { [1..n -> SheetProps] : n \in 0..MaxSheets }

\* The characters typed: space, tab and the letter a.
Chars == { 32, 9, 97 }
\* The lines input() may return.
InputLines == UNION { [1..n -> Chars] : n \in 0..MaxInputLen }

EmptyRemote ==
    [ exists |-> FALSE, sheets |-> <<>>, cells |-> <<>>, formats |-> <<>>,
      validation |-> <<>>, permissions |-> {} ]

\* ------------------------------------------------------- the remote service
\* Rows written from row `row` of an empty grid: the rows above stay empty.
PlaceRows(row, values) ==
    [i \in 1..(row - 1 + Len(values)) |->
        IF i < row THEN <<>> ELSE values[i - row + 1]]

\* values.batchUpdate: each entry's rows written at its range, by sheet.
WrittenCells(data) ==
    [i \in 1..Len(data) |->
        [sheet |-> data[i].range.sheet,
         grid  |-> PlaceRows(data[i].range.row, data[i].values)]]

IsValidation(req) == req.kind = "setDataValidation"
IsFormat(req) == req.kind # "setDataValidation"

\* What a successful call does to the spreadsheet; `resp` is the response.
ApplyCall(r, call, resp) ==
    CASE call.method = "spreadsheets.create" ->
            [r EXCEPT !.exists = TRUE, !.sheets = resp]
      [] call.method = "spreadsheets.values.batchUpdate" ->
            [r EXCEPT !.cells = WrittenCells(call.body.data)]
      [] call.method = "spreadsheets.batchUpdate" ->
            [r EXCEPT !.validation = @ \o SelectSeq(call.body.requests, IsValidation),
                      !.formats = @ \o SelectSeq(call.body.requests, IsFormat)]
      [] call.method = "permissions.create" ->
            [r EXCEPT !.permissions = @ \cup { call.body.emailAddress }]
      [] OTHER -> r

Last(s) == s[Len(s)]

\* ------------------------------------------------------------ control flow
Running(s, at) == script = s /\ status = "running" /\ pc = at

\* A blocking call is issued: nothing else is outstanding.
Issue(call) ==
    /\ ~inflight
    /\ calls' = Append(calls, call)
    /\ inflight' = TRUE

\* A main that deletes what it created when a step fails.
PropagateRollsBack ==
    /\ status' = "exception"
    /\ pc' = "end"
    /\ remote' = EmptyRemote

\* An exception nobody catches: main ends with a traceback.  Nothing is
\* undone remotely.
Propagate ==
    /\ status' = "exception"
    /\ pc' = "end"
    /\ remote' = remote

\* sys.exit(1)
Exit1 ==
    /\ status' = "exit1"
    /\ pc' = "end"

print(msg) == out' = out \cup { msg }

\* ------------------------------------------------ create_spreadsheet.py main
\* A get_credentials that only looks for the directory.
HasKeyFileDirOnly(dir) == dir.exists

\* get_credentials: is there a *.json file in KEYS_DIR?
HasKeyFile(dir) == dir.exists /\ dir.json_files

\* creds = get_credentials()
CS_GetCredentials ==
    /\ Running("create_spreadsheet", "get_credentials")
    /\ IF ~HasKeyFile(keys_dir)
       THEN /\ print("Error: No service account JSON file found")
            /\ Exit1
            /\ UNCHANGED creds
       ELSE \/ /\ creds' = Some("service_account")
               /\ print("Using service account")
               /\ pc' = "build"
               /\ UNCHANGED status
            \/ \* from_service_account_file raises on a malformed key
               /\ status' = "exception"
               /\ pc' = "end"
               /\ UNCHANGED << creds, out >>
    /\ UNCHANGED << inputs, written, inflight, calls, caught, remote,
                    handles, spreadsheet_id, metadata, typed, share_email,
                    sheet_names, idx, auth >>

\* sheets_service = build(...); drive_service = build(...)
CS_BuildServices ==
    /\ Running("create_spreadsheet", "build")
    /\ handles' = { "sheets", "drive" }
    /\ pc' = "create"
    /\ UNCHANGED << inputs, written, status, inflight, calls, out, caught,
                    remote, creds, spreadsheet_id, metadata, typed, share_email,
                    sheet_names, idx, auth >>

\* create_spreadsheet: spreadsheets().create(body=...).execute()
CS_Create_Call ==
    /\ Running("create_spreadsheet", "create")
    /\ Issue([ api |-> "sheets", method |-> "spreadsheets.create",
               body |-> spreadsheet_body ])
    /\ UNCHANGED << inputs, written, control, out, caught, remote, locals,
                    auth >>

CS_Create_Return ==
    /\ Running("create_spreadsheet", "create")
    /\ inflight
    /\ inflight' = FALSE
    /\ \/ \E m \in Metadatas :
            /\ remote' = ApplyCall(remote, Last(calls), m)
            /\ spreadsheet_id' = Some("sid")
            /\ metadata' = Some(m)
            /\ print("Created spreadsheet")
            /\ pc' = "populate"
            /\ UNCHANGED status
       \/ /\ Propagate
          /\ UNCHANGED << spreadsheet_id, metadata, out >>
    /\ UNCHANGED << inputs, written, calls, caught, creds, handles,
                    typed, share_email, sheet_names, idx, auth >>

\* populate_sheets: spreadsheets().values().batchUpdate(...).execute()
CS_Populate_Call ==
    /\ Running("create_spreadsheet", "populate")
    /\ Issue([ api |-> "sheets",
               method |-> "spreadsheets.values.batchUpdate",
               spreadsheetId |-> Val(spreadsheet_id),
               body |-> [valueInputOption |-> "RAW", data |-> populate_data] ])
    /\ UNCHANGED << inputs, written, control, out, caught, remote, locals,
                    auth >>

CS_Populate_Return ==
    /\ Running("create_spreadsheet", "populate")
    /\ inflight
    /\ inflight' = FALSE
    /\ \/ /\ remote' = ApplyCall(remote, Last(calls), None)
          /\ print("Added headers and dropdown values")
          /\ pc' = "format"
          /\ UNCHANGED status
       \/ /\ Propagate
          /\ UNCHANGED out
    /\ UNCHANGED << inputs, written, calls, caught, locals, auth >>

\* format_sheets up to the batchUpdate: sheet_ids["Grants"] raises KeyError
\* when no sheet is titled Grants, before anything is sent.
CS_Format_Call ==
    /\ Running("create_spreadsheet", "format")
    /\ ~inflight
    /\ IF DictHas(SheetIds(Val(metadata)), "Grants")
       THEN /\ Issue([ api |-> "sheets", method |-> "spreadsheets.batchUpdate",
                       spreadsheetId |-> Val(spreadsheet_id),
                       body |-> [requests |-> FormatRequests(Val(metadata))] ])
            /\ UNCHANGED << control, remote >>
       ELSE /\ Propagate
            /\ UNCHANGED << inflight, calls >>
    /\ UNCHANGED << inputs, written, out, caught, locals, auth >>

CS_Format_Return ==
    /\ Running("create_spreadsheet", "format")
    /\ inflight
    /\ inflight' = FALSE
    /\ \/ /\ remote' = ApplyCall(remote, Last(calls), None)
          /\ print("Applied formatting")
          /\ pc' = "validate"
          /\ UNCHANGED status
       \/ /\ Propagate
          /\ UNCHANGED out
    /\ UNCHANGED << inputs, written, calls, caught, locals, auth >>

\* add_data_validation up to the batchUpdate.
CS_Validate_Call ==
    /\ Running("create_spreadsheet", "validate")
    /\ ~inflight
    /\ LET grants_id == FindGrantsId(Val(metadata)) IN
       IF SkipsValidation(grants_id)
       THEN /\ print("Warning: Could not find Grants sheet for validation")
            /\ pc' = "prompt"
            /\ UNCHANGED << status, inflight, calls >>
       ELSE /\ Issue([ api |-> "sheets", method |-> "spreadsheets.batchUpdate",
                       spreadsheetId |-> Val(spreadsheet_id),
                       body |-> [requests |->
                                    ValidationRequests(Val(grants_id))] ])
            /\ UNCHANGED << control, out >>
    /\ UNCHANGED << inputs, written, caught, remote, locals, auth >>

CS_Validate_Return ==
    /\ Running("create_spreadsheet", "validate")
    /\ inflight
    /\ inflight' = FALSE
    /\ \/ /\ remote' = ApplyCall(remote, Last(calls), None)
          /\ print("Added data validation (dropdowns)")
          /\ pc' = "prompt"
          /\ UNCHANGED status
       \/ /\ Propagate
          /\ UNCHANGED out
    /\ UNCHANGED << inputs, written, calls, caught, locals, auth >>

\* A main that shares whatever was typed.
WantsShareAlways(email) == TRUE

\* share_email = input(...).strip(); "if share_email:"
WantsShare(email) == email # <<>>

CS_Prompt ==
    /\ Running("create_spreadsheet", "prompt")
    /\ \/ \E line \in InputLines :
            /\ typed' = Some(line)
            /\ share_email' = Some(Strip(line))
            /\ pc' = IF WantsShare(Strip(line)) THEN "share" ELSE "done"
            /\ UNCHANGED status
       \/ \* input() raises EOFError when stdin is closed
          /\ status' = "exception"
          /\ pc' = "end"
          /\ UNCHANGED << typed, share_email >>
    /\ print("Share with email (or press Enter to skip): ")
    /\ UNCHANGED << inputs, written, inflight, calls, caught, remote,
                    creds, handles, spreadsheet_id, metadata, sheet_names,
                    idx, auth >>

\* share_with_user: permissions().create(...).execute()
CS_Share_Call ==
    /\ Running("create_spreadsheet", "share")
    /\ Issue([ api |-> "drive", method |-> "permissions.create",
               fileId |-> Val(spreadsheet_id),
               body |-> [type |-> "user", role |-> "writer",
                         emailAddress |-> Val(share_email)],
               sendNotificationEmail |-> FALSE ])
    /\ UNCHANGED << inputs, written, control, out, caught, remote, locals,
                    auth >>

\* A main without the try around share_with_user: the failure ends the run.
ShareFailedPropagates ==
    /\ status' = "exception"
    /\ pc' = "end"
    /\ UNCHANGED << out, caught, remote >>

\* "except Exception as e: print(f'Could not share: {e}')"
ShareFailed ==
    /\ print("Could not share")
    /\ caught' = caught + 1
    /\ pc' = "done"
    /\ UNCHANGED << status, remote >>

CS_Share_Return ==
    /\ Running("create_spreadsheet", "share")
    /\ inflight
    /\ inflight' = FALSE
    /\ \/ /\ remote' = ApplyCall(remote, Last(calls), None)
          /\ print("Shared with")
          /\ pc' = "done"
          /\ UNCHANGED << status, caught >>
       \/ ShareFailed
    /\ UNCHANGED << inputs, written, calls, locals, auth >>

\* The last prints of main; the process ends with status 0.
CS_Done ==
    /\ Running("create_spreadsheet", "done")
    /\ print("Done! Open the spreadsheet to verify:")
    /\ status' = "exit0"
    /\ pc' = "end"
    /\ UNCHANGED << inputs, written, inflight, calls, caught, remote,
                    locals, auth >>

CreateNext ==
    \/ CS_GetCredentials
    \/ CS_BuildServices
    \/ CS_Create_Call
    \/ CS_Create_Return
    \/ CS_Populate_Call
    \/ CS_Populate_Return
    \/ CS_Format_Call
    \/ CS_Format_Return
    \/ CS_Validate_Call
    \/ CS_Validate_Return
    \/ CS_Prompt
    \/ CS_Share_Call
    \/ CS_Share_Return
    \/ CS_Done


\* ------------------------------------------------------- sheets_poc.py data
fields_to_try ==
    << "tables", "sheets.tables", "sheets.data.rowData",
       "sheets.conditionalFormats", "sheets.filterViews",
       "dataSourceSchedules" >>

\* A spreadsheets.get of SPREADSHEET_ID; `fields` is the comma-separated
\* field mask as the sequence of its parts.
GetCall(fields) ==
    [ api |-> "sheets", method |-> "spreadsheets.get",
      spreadsheetId |-> "SPREADSHEET_ID", fields |-> fields ]

\* A values.get of range f"'{sheet_name}'!A:Z".
ValuesGetCall(sheet_name) ==
    [ api |-> "sheets", method |-> "spreadsheets.values.get",
      spreadsheetId |-> "SPREADSHEET_ID",
      range |-> [sheet |-> sheet_name, cols |-> "A:Z"] ]

\* A test_write_operation with the early return removed.
WriteTestAppends ==
    << [ api |-> "sheets", method |-> "spreadsheets.values.append",
         spreadsheetId |-> "SPREADSHEET_ID",
         range |-> [sheet |-> "Grants", cols |-> "A:Z"],
         body |-> [values |-> << << "TEST-2026-Example" >> >>] ] >>

\* The calls test_write_operation issues: it returns before the append.
WriteTestCalls == <<>>

RECURSIVE ApplyAll(_, _)
ApplyAll(r, cs) ==
    IF cs = <<>> THEN r ELSE ApplyAll(ApplyCall(r, Head(cs), None), Tail(cs))

\* [s['properties']['title'] for s in metadata.get('sheets', [])]
SheetTitles(sheets) == [i \in 1..Len(sheets) |-> sheets[i].title]

\* ---- get_oauth_credentials
\* "if not creds or not creds.valid"
NeedsAuth(c) == c = None \/ ~Val(c).valid

\* A refresh attempted for any expired token, refresh token or not.
CanRefreshAnyExpired(c) == c # None /\ Val(c).expired

\* "if creds and creds.expired and creds.refresh_token"
CanRefresh(c) ==
    c # None /\ Val(c).expired /\ TruthyStr(Val(c).refresh_token)

\* "if not CLIENT_ID or not CLIENT_SECRET" is false
HasClientConfig(id, secret) == TruthyStr(id) /\ TruthyStr(secret)

\* Where get_oauth_credentials goes with the loaded credentials c.
OAuthBranch(c, id, secret) ==
    IF ~NeedsAuth(c) THEN "return"
    ELSE IF CanRefresh(c) THEN "refresh"
    ELSE IF HasClientConfig(id, secret) THEN "flow"
    ELSE "exit"

\* What get_oauth_credentials does once it holds fresh credentials:
\* TOKEN_FILE.write_text(...), then return creds.
SaveAndReturn == << "write_token", "return" >>

\* What it does with a stored valid token: return creds.
ReturnAsIs == << "return" >>

\* The token files a run may find: google-auth's valid is
\* "token is not None and not expired", so valid and expired never both hold.
StoredTokens ==
    { t \in [ valid : BOOLEAN, expired : BOOLEAN,
              refresh_token : { None, Some(""), Some("rt") } ] :
        ~(t.valid /\ t.expired) }

\* A token.json that is not the JSON of stored credentials.
MalformedToken == [ malformed |-> TRUE ]

\* Credentials.from_authorized_user_file raises on such a file.
LoadRaises(f) == f # None /\ Val(f) = MalformedToken

\* TOKEN_FILE as a run may find it: absent, stored credentials, or malformed.
TokenFiles ==
    { None } \cup { Some(t) : t \in StoredTokens } \cup { Some(MalformedToken) }

EnvValues == { None, Some(""), Some("x") }

\* The spreadsheets sheets_poc.py may read: sheets with distinct titles.
PocSheetLists ==
    { m \in UNION { [1..n -> Titles] : n \in 0..MaxPocSheets } :
        \A i, j \in 1..Len(m) : i # j => m[i] # m[j] }

\* ------------------------------------------------------- sheets_poc.py main
\* get_service_account_credentials: "if not SERVICE_ACCOUNT_FILE.exists()"
MissingServiceAccount(exists) == ~exists

\* creds = get_credentials(use_oauth): the service-account path whole, the
\* OAuth path up to its branch.
SP_GetCredentials ==
    /\ Running("sheets_poc", "get_credentials")
    /\ IF ~use_oauth
       THEN IF MissingServiceAccount(sa_file)
            THEN /\ print("Error: Service account file not found")
                 /\ Exit1
                 /\ UNCHANGED << creds, auth >>
            ELSE \/ /\ creds' = Some("service_account")
                    /\ print("Using service account")
                    /\ pc' = "build"
                    /\ UNCHANGED << status, auth >>
                 \/ \* from_service_account_file raises on a malformed key
                    /\ status' = "exception"
                    /\ pc' = "end"
                    /\ UNCHANGED << creds, out, auth >>
       ELSE IF LoadRaises(token_file)
            THEN \* nothing catches the error of from_authorized_user_file
                 /\ status' = "exception"
                 /\ pc' = "end"
                 /\ UNCHANGED << creds, out, auth >>
            ELSE LET branch == OAuthBranch(token_file, CLIENT_ID,
                                           CLIENT_SECRET) IN
                 /\ creds' = token_file
                 /\ CASE branch = "return" ->
                             /\ auth' = auth \o ReturnAsIs
                             /\ pc' = "build"
                             /\ UNCHANGED << status, out >>
                      [] branch = "refresh" ->
                             /\ print("Refreshing expired token...")
                             /\ pc' = "oauth_refresh"
                             /\ UNCHANGED << status, auth >>
                      [] branch = "flow" ->
                             /\ pc' = "oauth_flow"
                             /\ UNCHANGED << status, out, auth >>
                      [] OTHER ->
                             /\ print("Error: CLIENT_ID and CLIENT_SECRET must be set in .env file")
                             /\ Exit1
                             /\ UNCHANGED auth
    /\ UNCHANGED << inputs, written, inflight, calls, caught, remote,
                    handles, spreadsheet_id, metadata, typed, share_email,
                    sheet_names, idx >>

\* creds.refresh(Request())
SP_OAuthRefresh ==
    /\ Running("sheets_poc", "oauth_refresh")
    /\ \/ /\ creds' = Some([Val(creds) EXCEPT !.valid = TRUE,
                                              !.expired = FALSE])
          /\ auth' = Append(auth, "refresh")
          /\ pc' = "oauth_save"
          /\ UNCHANGED status
       \/ \* RefreshError
          /\ status' = "exception"
          /\ pc' = "end"
          /\ UNCHANGED << creds, auth >>
    /\ UNCHANGED << inputs, written, inflight, calls, out, caught, remote,
                    handles, spreadsheet_id, metadata, typed, share_email,
                    sheet_names, idx >>

\* flow.run_local_server(port=8080)
SP_OAuthFlow ==
    /\ Running("sheets_poc", "oauth_flow")
    /\ \/ /\ creds' = Some([valid |-> TRUE, expired |-> FALSE,
                            refresh_token |-> Some("rt")])
          /\ auth' = Append(auth, "browser_flow")
          /\ pc' = "oauth_save"
          /\ UNCHANGED status
       \/ \* the user denies access, or port 8080 is taken
          /\ status' = "exception"
          /\ pc' = "end"
          /\ UNCHANGED << creds, auth >>
    /\ UNCHANGED << inputs, written, inflight, calls, out, caught, remote,
                    handles, spreadsheet_id, metadata, typed, share_email,
                    sheet_names, idx >>

\* What a write_text that raises leaves in the file once it was opened
\* (mode 'w' truncates it first): nothing, or the start of the JSON.
EmptyContent == [ content |-> "empty" ]
PartialContent == [ content |-> "partial" ]

\* TOKEN_FILE after a write_text that raises: untouched when the open itself
\* fails, else truncated to nothing or to a part of the JSON.
FailedWrite(w) ==
    { w, Append(w, Some(EmptyContent)), Append(w, Some(PartialContent)) }

\* TOKEN_FILE.write_text(creds.to_json()); return creds
SP_OAuthSave ==
    /\ Running("sheets_poc", "oauth_save")
    /\ \/ /\ auth' = auth \o SaveAndReturn
          /\ written' = IF \E i \in 1..Len(SaveAndReturn) :
                               SaveAndReturn[i] = "write_token"
                        THEN Append(written, creds) ELSE written
          /\ print("Token saved")
          /\ pc' = "build"
          /\ UNCHANGED status
       \/ \* write_text raises OSError: nothing catches it and the
          \* credentials are not returned
          /\ written' \in FailedWrite(written)
          /\ status' = "exception"
          /\ pc' = "end"
          /\ UNCHANGED << auth, out >>
    /\ UNCHANGED << inputs, inflight, calls, caught, remote, locals >>

\* service = build('sheets', 'v4', credentials=creds)
SP_BuildService ==
    /\ Running("sheets_poc", "build")
    /\ handles' = { "sheets" }
    /\ pc' = "metadata"
    /\ UNCHANGED << inputs, written, status, inflight, calls, out, caught,
                    remote, creds, spreadsheet_id, metadata, typed, share_email,
                    sheet_names, idx, auth >>

\* explore_spreadsheet_metadata: a get outside any try.
SP_Metadata_Call ==
    /\ Running("sheets_poc", "metadata")
    /\ Issue(GetCall(<< "spreadsheetId", "properties.title",
                     "sheets.properties", "tables" >>))
    /\ UNCHANGED << inputs, written, control, out, caught, remote, locals,
                    auth >>

SP_Metadata_Return ==
    /\ Running("sheets_poc", "metadata")
    /\ inflight
    /\ inflight' = FALSE
    /\ \/ /\ print("Title")
          /\ pc' = "values_meta"
          /\ UNCHANGED << status, remote >>
       \/ /\ Propagate
          /\ UNCHANGED out
    /\ UNCHANGED << inputs, written, calls, caught, locals, auth >>

\* explore_values_api: the metadata get.
SP_ValuesMeta_Call ==
    /\ Running("sheets_poc", "values_meta")
    /\ Issue(GetCall(<< "sheets.properties.title" >>))
    /\ UNCHANGED << inputs, written, control, out, caught, remote, locals,
                    auth >>

\* Where a loop over `items` goes with Python index i: into the body, or on
\* to `after`, whose own loop starts at index 0.
LoopNext(i, items, body, after) == IF i < Len(items) THEN body ELSE after
LoopIdx(i, items) == IF i < Len(items) THEN i ELSE 0

SP_ValuesMeta_Return ==
    /\ Running("sheets_poc", "values_meta")
    /\ inflight
    /\ inflight' = FALSE
    /\ \/ /\ sheet_names' = SheetTitles(remote.sheets)
          /\ idx' = 0
          /\ print("Sheets to read")
          /\ pc' = LoopNext(0, SheetTitles(remote.sheets),
                            "values_read", "tables_try")
          /\ UNCHANGED << status, remote >>
       \/ /\ Propagate
          /\ UNCHANGED << sheet_names, idx, out >>
    /\ UNCHANGED << inputs, written, calls, caught, creds, handles,
                    spreadsheet_id, metadata, typed, share_email, auth >>

\* explore_values_api: one pass of "for sheet_name in sheet_names".
SP_ValuesRead_Call ==
    /\ Running("sheets_poc", "values_read")
    /\ Issue(ValuesGetCall(sheet_names[idx + 1]))
    /\ UNCHANGED << inputs, written, control, out, caught, remote, locals,
                    auth >>

\* A try around the whole loop: the first failure ends the loop.
CaughtItemBreaks(msg, items, body, after) ==
    /\ print(msg)
    /\ caught' = caught + 1
    /\ idx' = 0
    /\ pc' = after

\* "except Exception as e" of a per-item try: printed, and the loop goes on.
CaughtItem(msg, items, body, after) ==
    /\ print(msg)
    /\ caught' = caught + 1
    /\ idx' = LoopIdx(idx + 1, items)
    /\ pc' = LoopNext(idx + 1, items, body, after)

SP_ValuesRead_Return ==
    /\ Running("sheets_poc", "values_read")
    /\ inflight
    /\ inflight' = FALSE
    /\ \/ \E msg \in { "(empty)", "Headers" } :
            /\ print(msg)
            /\ idx' = LoopIdx(idx + 1, sheet_names)
            /\ pc' = LoopNext(idx + 1, sheet_names, "values_read",
                              "tables_try")
            /\ UNCHANGED caught
       \/ CaughtItem("Error reading sheet", sheet_names, "values_read",
                     "tables_try")
    /\ UNCHANGED << inputs, written, status, calls, remote, creds, handles,
                    spreadsheet_id, metadata, typed, share_email, sheet_names, auth >>

\* explore_tables_api: one pass of "for field in fields_to_try", from the
\* print at its top to the get being issued.
SP_TablesTry_Call ==
    /\ Running("sheets_poc", "tables_try")
    /\ print("Trying field")
    /\ Issue(GetCall(<< "spreadsheetId", fields_to_try[idx + 1] >>))
    /\ UNCHANGED << inputs, written, control, caught, remote, locals, auth >>

SP_TablesTry_Return ==
    /\ Running("sheets_poc", "tables_try")
    /\ inflight
    /\ inflight' = FALSE
    /\ \/ /\ idx' = LoopIdx(idx + 1, fields_to_try)
          /\ pc' = LoopNext(idx + 1, fields_to_try, "tables_try",
                            "tables_named")
          /\ UNCHANGED << caught, out >>
       \/ CaughtItem("Error", fields_to_try, "tables_try", "tables_named")
    /\ UNCHANGED << inputs, written, status, calls, remote, creds, handles,
                    spreadsheet_id, metadata, typed, share_email, sheet_names, auth >>

\* explore_tables_api: the named-ranges get after the loop, outside any try.
SP_TablesNamed_Call ==
    /\ Running("sheets_poc", "tables_named")
    /\ Issue(GetCall(<< "sheets.properties.title", "namedRanges" >>))
    /\ UNCHANGED << inputs, written, control, out, caught, remote, locals,
                    auth >>

SP_TablesNamed_Return ==
    /\ Running("sheets_poc", "tables_named")
    /\ inflight
    /\ inflight' = FALSE
    /\ \/ /\ print("Named ranges")
          /\ pc' = "validation"
          /\ UNCHANGED << status, remote >>
       \/ /\ Propagate
          /\ UNCHANGED out
    /\ UNCHANGED << inputs, written, calls, caught, locals, auth >>

\* explore_data_validation: the section header, then a get outside any try.
SP_Validation_Call ==
    /\ Running("sheets_poc", "validation")
    /\ print("Data Validation Rules")
    /\ Issue(GetCall(<< "sheets(properties.title,data.rowData.values.dataValidation)" >>))
    /\ UNCHANGED << inputs, written, control, caught, remote, locals, auth >>

SP_Validation_Return ==
    /\ Running("sheets_poc", "validation")
    /\ inflight
    /\ inflight' = FALSE
    /\ \/ /\ pc' = "write_test"
          /\ UNCHANGED << status, remote >>
       \/ Propagate
    /\ UNCHANGED out
    /\ UNCHANGED << inputs, written, calls, caught, locals, auth >>

\* test_write_operation
SP_WriteTest ==
    /\ Running("sheets_poc", "write_test")
    /\ ~inflight
    /\ print("Write Test (Skipped)")
    /\ calls' = calls \o WriteTestCalls
    /\ remote' = ApplyAll(remote, WriteTestCalls)
    /\ pc' = "done"
    /\ UNCHANGED << inputs, written, status, inflight, caught, locals,
                    auth >>

\* print_section("Done") and the last prints; the process ends with status 0.
SP_Done ==
    /\ Running("sheets_poc", "done")
    /\ print("Done")
    /\ status' = "exit0"
    /\ pc' = "end"
    /\ UNCHANGED << inputs, written, inflight, calls, caught, remote,
                    locals, auth >>

PocNext ==
    \/ SP_GetCredentials
    \/ SP_OAuthRefresh
    \/ SP_OAuthFlow
    \/ SP_OAuthSave
    \/ SP_BuildService
    \/ SP_Metadata_Call
    \/ SP_Metadata_Return
    \/ SP_ValuesMeta_Call
    \/ SP_ValuesMeta_Return
    \/ SP_ValuesRead_Call
    \/ SP_ValuesRead_Return
    \/ SP_TablesTry_Call
    \/ SP_TablesTry_Return
    \/ SP_TablesNamed_Call
    \/ SP_TablesNamed_Return
    \/ SP_Validation_Call
    \/ SP_Validation_Return
    \/ SP_WriteTest
    \/ SP_Done

\* ------------------------------------------------------------ specification
NoLocals ==
    /\ creds = None
    /\ handles = {}
    /\ spreadsheet_id = None
    /\ metadata = None
    /\ typed = None
    /\ share_email = None
    /\ sheet_names = <<>>
    /\ idx = 0

Started ==
    /\ pc = "get_credentials"
    /\ status = "running"
    /\ inflight = FALSE
    /\ calls = <<>>
    /\ out = {}
    /\ caught = 0
    /\ auth = <<>>
    /\ written = <<>>
    /\ NoLocals

\* A run of create_spreadsheet.py: the keys directory is what it finds.
InitCreate ==
    /\ script = "create_spreadsheet"
    /\ keys_dir \in [exists : BOOLEAN, json_files : BOOLEAN]
    /\ use_oauth = FALSE
    /\ sa_file = FALSE
    /\ token_file = None
    /\ CLIENT_ID = None
    /\ CLIENT_SECRET = None
    /\ remote = EmptyRemote
    /\ Started

\* A run of sheets_poc.py against an existing spreadsheet.  Each mode draws
\* the files and variables it reads: service-account.json without --oauth,
\* token.json, CLIENT_ID and CLIENT_SECRET with it.
InitPoc ==
    /\ script = "sheets_poc"
    /\ keys_dir = [exists |-> FALSE, json_files |-> FALSE]
    /\ use_oauth \in BOOLEAN
    /\ IF use_oauth
       THEN /\ sa_file = FALSE
            /\ token_file \in TokenFiles
            /\ CLIENT_ID \in EnvValues
            /\ CLIENT_SECRET \in EnvValues
       ELSE /\ sa_file \in BOOLEAN
            /\ token_file = None
            /\ CLIENT_ID = None
            /\ CLIENT_SECRET = None
    /\ \E m \in PocSheetLists :
          remote = [ EmptyRemote EXCEPT
                        !.exists = TRUE,
                        !.sheets = [i \in 1..Len(m) |->
                                       [title |-> m[i], sheetId |-> i - 1]] ]
    /\ Started

Init == InitCreate \/ InitPoc

Next == CreateNext \/ PocNext

Spec == Init /\ [][Next]_vars


\* ------------------------------------------------------------------ claims
IsCreate == script = "create_spreadsheet"
IsPoc == script = "sheets_poc"

\* The step of create_spreadsheet.py a call belongs to, in the order main
\* lists them: 1 create, 2 values.batchUpdate, 3 formatting batchUpdate,
\* 4 validation batchUpdate, 5 permissions.create; 0 for anything else.
StepOf(c) ==
    CASE c.method = "spreadsheets.create" -> 1
      [] c.method = "spreadsheets.values.batchUpdate" -> 2
      [] c.method = "spreadsheets.batchUpdate" ->
            IF c.body.requests # <<>> /\ IsValidation(c.body.requests[1])
            THEN 4 ELSE 3
      [] c.method = "permissions.create" -> 5
      [] OTHER -> 0

CallsOfStep(k) == { i \in 1..Len(calls) : StepOf(calls[i]) = k }

\* What a successful call of step k leaves on the remote spreadsheet.
EffectPresent(k) ==
    CASE k = 1 -> remote.exists
      [] k = 2 -> remote.cells # <<>>
      [] k = 3 -> remote.formats # <<>>
      [] k = 4 -> remote.validation # <<>>
      [] k = 5 -> remote.permissions # {}
      [] OTHER -> FALSE

\* Call i has returned.
HasReturned(i) == i < Len(calls) \/ ~inflight

\* Call i has returned by raising: it left nothing behind.
RaisedAt(i) == HasReturned(i) /\ ~EffectPresent(StepOf(calls[i]))

Printed(msg) == msg \in out

NonBlank(line) == \E i \in 1..Len(line) : line[i] \notin Whitespace

\* ---- C1
ShareFailedState ==
    /\ IsCreate
    /\ calls # <<>>
    /\ StepOf(Last(calls)) = 5
    /\ ~inflight
    /\ Last(calls).body.emailAddress \notin remote.permissions

\* C1: when a non-empty share email was entered and permissions.create raised,
\* the exception is caught and 'Could not share' printed, the run goes on to
\* the final 'Done' step and ends with status 0, and the failed share leaves
\* the spreadsheet as it was.
C1_ShareFailureCaught ==
    /\ [](ShareFailedState =>
            /\ Val(share_email) # <<>>
            /\ Printed("Could not share")
            /\ status \in { "running", "exit0" }
            /\ status = "running" => pc = "done" /\ ENABLED CS_Done
            /\ status = "exit0" => Printed("Done! Open the spreadsheet to verify:"))
    /\ [][(pc = "share" /\ inflight /\ ShareFailedState') => remote' = remote]_vars

C1_Witness ==
    /\ ShareFailedState
    /\ status = "exit0"
    /\ Printed("Could not share")
    /\ remote.validation # <<>>

\* ---- C2
\* C2: in both scripts a missing credential file ends the process with
\* status 1 and a printed message, before any API handle is built and before
\* any remote call: create_spreadsheet.py when the keys directory is absent or
\* holds no *.json file, sheets_poc.py (service-account mode) when
\* service-account.json does not exist.
C2_MissingCredentialsExit ==
    /\ (IsCreate /\ pc # "get_credentials"
          /\ (~keys_dir.exists \/ ~keys_dir.json_files))
        => /\ status = "exit1"
           /\ pc = "end"
           /\ Printed("Error: No service account JSON file found")
           /\ handles = {}
           /\ calls = <<>>
           /\ creds = None
    /\ (IsPoc /\ ~use_oauth /\ pc # "get_credentials" /\ ~sa_file)
        => /\ status = "exit1"
           /\ pc = "end"
           /\ Printed("Error: Service account file not found")
           /\ handles = {}
           /\ calls = <<>>
           /\ creds = None
    /\ (status = "running" /\ pc = "get_credentials")
        => handles = {} /\ calls = <<>>

C2_Witness ==
    /\ IsCreate
    /\ keys_dir.exists
    /\ ~keys_dir.json_files
    /\ status = "exit1"

\* ---- C3
\* C3: the remote calls of create_spreadsheet.py come in the fixed order
\* create, values.batchUpdate, formatting batchUpdate, validation batchUpdate,
\* permissions.create, after the credentials were acquired and both handles
\* built; a call is issued only once every earlier one has returned; and
\* permissions.create is issued if and only if the line typed at the prompt is
\* non-empty after stripping whitespace.
C3_FixedCallOrder ==
    IsCreate =>
        /\ \A i \in 1..Len(calls) : StepOf(calls[i]) \in 1..5
        /\ \A i, j \in 1..Len(calls) :
              i < j => StepOf(calls[i]) < StepOf(calls[j])
        /\ handles # {} => creds # None
        /\ calls # <<>> => creds # None /\ handles = { "sheets", "drive" }
        /\ \A i \in 1..Len(calls) :
              i < Len(calls) => EffectPresent(StepOf(calls[i]))
        /\ inflight => calls # <<>> /\ status = "running"
        /\ status = "exit0" =>
              CallsOfStep(1) # {} /\ CallsOfStep(2) # {} /\ CallsOfStep(3) # {}
        /\ CallsOfStep(5) # {} =>
              /\ typed # None
              /\ NonBlank(Val(typed))
              /\ \A i \in CallsOfStep(5) :
                    /\ calls[i].body.emailAddress # <<>>
                    /\ calls[i].body.emailAddress[1] \notin Whitespace
                    /\ Last(calls[i].body.emailAddress) \notin Whitespace
        /\ (typed # None /\ NonBlank(Val(typed)) /\ pc \in { "done", "end" })
              => CallsOfStep(5) # {}
        /\ (typed # None /\ ~NonBlank(Val(typed))) => pc \in { "done", "end" }

C3_Witness ==
    /\ IsCreate
    /\ status = "exit0"
    /\ Len(calls) = 5
    /\ Val(typed) # Val(share_email)

\* ---- C4
\* C4: create_spreadsheet.py never retries and never recovers: each of the
\* five calls is issued at most once; when one of the first four raises, that
\* call is the last one issued, the run ends with the uncaught exception, the
\* share prompt is never shown and 'Done' never printed; and what the earlier
\* calls created remotely is still there.
C4_NoRetryNoRecovery ==
    IsCreate =>
        /\ \A k \in 1..5 : Cardinality(CallsOfStep(k)) <= 1
        /\ \A i \in 1..Len(calls) :
              (StepOf(calls[i]) \in 1..4 /\ RaisedAt(i)) =>
                  /\ i = Len(calls)
                  /\ status = "exception"
                  /\ pc = "end"
                  /\ typed = None
                  /\ ~Printed("Share with email (or press Enter to skip): ")
                  /\ ~Printed("Done! Open the spreadsheet to verify:")
        /\ \A i \in 1..Len(calls) :
              i < Len(calls) => EffectPresent(StepOf(calls[i]))
        /\ \A i \in 1..Len(calls) :
              calls[i].method \in { "spreadsheets.create",
                                    "spreadsheets.values.batchUpdate",
                                    "spreadsheets.batchUpdate",
                                    "permissions.create" }

C4_Witness ==
    /\ IsCreate
    /\ status = "exception"
    /\ Len(calls) = 4
    /\ RaisedAt(4)
    /\ remote.exists
    /\ remote.cells # <<>>
    /\ remote.formats # <<>>

\* ---- C5
ReadMethods == { "spreadsheets.get", "spreadsheets.values.get" }

\* C5: sheets_poc.py only reads: in either mode every remote call it issues
\* is a Sheets spreadsheets.get or spreadsheets.values.get, test_write_operation
\* issues no call, and no step changes the remote spreadsheet.
C5_PocOnlyReads ==
    /\ [](IsPoc => \A i \in 1..Len(calls) :
                      /\ calls[i].api = "sheets"
                      /\ calls[i].method \in ReadMethods)
    /\ [][IsPoc => remote' = remote]_vars
    /\ [][(IsPoc /\ pc = "write_test") => calls' = calls]_vars

C5_Witness ==
    /\ IsPoc
    /\ use_oauth
    /\ status = "exit0"
    /\ Printed("Write Test (Skipped)")
    /\ Len(calls) = 4 + MaxPocSheets + Len(fields_to_try)

\* ---- C6
\* The grid populate_sheets wrote on a sheet.
GridOf(sheet) ==
    remote.cells[CHOOSE i \in 1..Len(remote.cells) :
                    remote.cells[i].sheet = sheet].grid

\* Column A of a grid from row `row` down.
ColumnAFrom(grid, row) ==
    [i \in 1..(Len(grid) - row + 1) |-> grid[i + row - 1][1]]

\* The header populate_sheets wrote over Grants column c (0-based).
HeaderAt(c) == GridOf("Grants")[1][c + 1]

\* C6: the dropdown constraint is set up consistently: once populate_sheets
\* has run, Status!A2:A holds exactly STATUS_VALUES and Tags!A2:A exactly
\* DEFAULT_TAGS, in order, under a header cell in row 1; and the validation
\* request covers exactly the Grants columns headed 'Status' (index 3) and
\* 'Tags' (index 9), from row index 1 down, each referring to column A from
\* row 2 of the sheet named like the column's header.
C6_ValidationMatchesSchema ==
    IsCreate =>
        /\ remote.cells # <<>> =>
              /\ GridOf("Grants") = << GRANTS_COLUMNS >>
              /\ GridOf("Status")[1] = << "Status" >>
              /\ GridOf("Tags")[1] = << "Name" >>
              /\ ColumnAFrom(GridOf("Status"), 2) = STATUS_VALUES
              /\ ColumnAFrom(GridOf("Tags"), 2) = DEFAULT_TAGS
        /\ \A i \in CallsOfStep(4) :
              LET reqs == calls[i].body.requests
                  R == { reqs[j] : j \in 1..Len(reqs) }
              IN  /\ remote.cells # <<>>
                  /\ { r.startColumnIndex : r \in R }
                        = { c \in 0..(Len(GRANTS_COLUMNS) - 1) :
                               HeaderAt(c) \in { "Status", "Tags" } }
                  /\ { r.startColumnIndex : r \in R } = { 3, 9 }
                  /\ \A r \in R :
                        /\ r.kind = "setDataValidation"
                        /\ r.endColumnIndex = r.startColumnIndex + 1
                        /\ r.startRowIndex = 1
                        /\ "endRowIndex" \notin DOMAIN r
                        /\ r.type = "ONE_OF_RANGE"
                        /\ r.source = [ sheet |-> HeaderAt(r.startColumnIndex),
                                        col |-> "A", row |-> 2 ]
                        /\ ColumnAFrom(GridOf(r.source.sheet), r.source.row)
                              \in { STATUS_VALUES, DEFAULT_TAGS }

C6_Witness ==
    /\ IsCreate
    /\ remote.cells # <<>>
    /\ Len(remote.validation) = 2
    /\ status = "exit0"

\* ---- C7
IsPrefix(a, b) ==
    Len(a) <= Len(b) /\ \A i \in 1..Len(a) : a[i] = b[i]

\* The calls a complete run of sheets_poc.py issues against the spreadsheet
\* it reads, in order.
ExpectedPocCalls ==
    << GetCall(<< "spreadsheetId", "properties.title", "sheets.properties",
                  "tables" >>),
       GetCall(<< "sheets.properties.title" >>) >>
    \o [i \in 1..Len(remote.sheets) |->
           [ api |-> "sheets", method |-> "spreadsheets.values.get",
             spreadsheetId |-> "SPREADSHEET_ID",
             range |-> [sheet |-> remote.sheets[i].title, cols |-> "A:Z"] ]]
    \o [i \in 1..6 |->
           GetCall(<< "spreadsheetId", fields_to_try[i] >>)]
    \o << GetCall(<< "sheets.properties.title", "namedRanges" >>),
          GetCall(<< "sheets(properties.title,data.rowData.values.dataValidation)" >>) >>

\* The gets outside any try: their place in ExpectedPocCalls and what the
\* run prints first once they have answered.
OutsideTry ==
    { << 1, "Title" >>,
      << 2, "Sheets to read" >>,
      << Len(remote.sheets) + 9, "Named ranges" >>,
      << Len(remote.sheets) + 10, "Write Test (Skipped)" >> }

\* What the explorations after call number n print: nothing of it shows
\* when the run ended at that call.
PrintedAfter(n) ==
    { e[2] : e \in { f \in OutsideTry : f[1] >= n } } \cup { "Done" }

\* C7: in sheets_poc.py a failed per-item read is caught and printed and the
\* exploration goes on: one values.get per sheet title, in metadata order,
\* and all six candidate fields in list order, whichever of them raise.  A
\* get outside those try blocks that raises ends the run: it is the last call.
C7_PerItemFailuresContained ==
    IsPoc =>
        /\ IsPrefix(calls, ExpectedPocCalls)
        /\ status = "exit0" => calls = ExpectedPocCalls
        /\ caught > 0 => Printed("Error reading sheet") \/ Printed("Error")
        /\ (status = "exception" /\ calls # <<>>) =>
              /\ \E e \in OutsideTry : e[1] = Len(calls)
              /\ ~inflight
              /\ pc = "end"
              /\ \A msg \in PrintedAfter(Len(calls)) : ~Printed(msg)
        /\ \A e \in OutsideTry :
              (e[1] < Len(calls) \/ status = "exit0") => Printed(e[2])
        /\ \A e \in OutsideTry :
              (e[1] <= Len(calls) /\ HasReturned(e[1]) /\ ~Printed(e[2]))
                  => \/ status = "exception" /\ Len(calls) = e[1]
                     \/ status = "running" /\ pc = "write_test"

C7_Witness ==
    /\ IsPoc
    /\ status = "exit0"
    /\ Len(remote.sheets) = MaxPocSheets
    /\ caught = Len(remote.sheets) + Len(fields_to_try)

\* ---- C8
MetadataHasGrants ==
    \E i \in 1..Len(Val(metadata)) : Val(metadata)[i].title = "Grants"

FirstGrantsId ==
    Val(metadata)[CHOOSE i \in 1..Len(Val(metadata)) :
                     /\ Val(metadata)[i].title = "Grants"
                     /\ \A j \in 1..(i - 1) :
                           Val(metadata)[j].title # "Grants"].sheetId

\* add_data_validation has returned normally.
ValidationStepDone == pc \in { "prompt", "share", "done" } \/ status = "exit0"

\* C8: add_data_validation prints the warning and skips the request only
\* when no sheet is titled 'Grants'; when one is, whatever its sheetId (0
\* included), exactly one batchUpdate with the two setDataValidation requests
\* (columns D and J) targeting that sheet's id is issued.
C8_ValidationWheneverGrants ==
    (IsCreate /\ ValidationStepDone) =>
        /\ Printed("Warning: Could not find Grants sheet for validation")
              => ~MetadataHasGrants
        /\ MetadataHasGrants =>
              /\ Cardinality(CallsOfStep(4)) = 1
              /\ \A i \in CallsOfStep(4) :
                    LET reqs == calls[i].body.requests IN
                    /\ Len(reqs) = 2
                    /\ reqs[1].startColumnIndex = 3
                    /\ reqs[2].startColumnIndex = 9
                    /\ reqs[1].sheetId = FirstGrantsId
                    /\ reqs[2].sheetId = FirstGrantsId

\* ---- C9
MetaTitles(m) == { m[i].title : i \in 1..Len(m) }

\* The distinct titles of m, each at the place of its first appearance.
RECURSIVE DistinctTitles(_, _)
DistinctTitles(m, seen) ==
    IF m = <<>> THEN <<>>
    ELSE IF Head(m).title \in seen THEN DistinctTitles(Tail(m), seen)
    ELSE << Head(m).title >>
            \o DistinctTitles(Tail(m), seen \cup { Head(m).title })

\* The id the last sheet titled t carries.
LastIdOf(m, t) ==
    m[CHOOSE i \in 1..Len(m) :
         m[i].title = t /\ \A j \in (i + 1)..Len(m) : m[j].title # t].sheetId

\* C9: format_sheets sends one batchUpdate; its requests are, for each
\* distinct sheet title, a bold grey repeatCell on row 0 and a
\* frozenRowCount = 1 update, then one updateDimensionProperties for each
\* Grants column index 0..13 over [i, i + 1): 2 * n + 14 requests for n
\* titles.  With no 'Grants' sheet it fails before any call of its own.
C9_FormatRequests ==
    (IsCreate /\ metadata # None) =>
        LET m == Val(metadata)
            titles == DistinctTitles(m, {})
            n == Len(titles)
        IN  /\ Cardinality(CallsOfStep(3)) <= 1
            /\ \A i \in CallsOfStep(3) :
                  LET reqs == calls[i].body.requests IN
                  /\ Len(reqs) = 2 * n + 14
                  /\ Len(GRANTS_COLUMNS) = 14
                  /\ n = Cardinality(MetaTitles(m))
                  /\ \A j \in 1..n :
                        LET t == titles[j] IN
                        /\ reqs[2 * j - 1].kind = "repeatCell"
                        /\ reqs[2 * j - 1].sheetId = LastIdOf(m, t)
                        /\ reqs[2 * j - 1].startRowIndex = 0
                        /\ reqs[2 * j - 1].endRowIndex = 1
                        /\ reqs[2 * j - 1].bold
                        /\ reqs[2 * j - 1].backgroundColor = "0.9,0.9,0.9"
                        /\ reqs[2 * j].kind = "updateSheetProperties"
                        /\ reqs[2 * j].sheetId = LastIdOf(m, t)
                        /\ reqs[2 * j].frozenRowCount = 1
                  /\ \A c \in 0..(Len(GRANTS_COLUMNS) - 1) :
                        /\ reqs[2 * n + c + 1].kind = "updateDimensionProperties"
                        /\ reqs[2 * n + c + 1].dimension = "COLUMNS"
                        /\ reqs[2 * n + c + 1].startIndex = c
                        /\ reqs[2 * n + c + 1].endIndex = c + 1
                        /\ reqs[2 * n + c + 1].sheetId = LastIdOf(m, "Grants")
            /\ "Grants" \notin MetaTitles(m) =>
                  /\ \A i \in 1..Len(calls) : StepOf(calls[i]) \in { 1, 2 }
                  /\ pc \in { "populate", "format", "end" }
                  /\ pc = "end" => status = "exception"

C9_Witness ==
    /\ IsCreate
    /\ metadata # None
    /\ Len(Val(metadata)) = 3
    /\ MetaTitles(Val(metadata)) = { "Grants", "Status", "Tags" }
    /\ Len(remote.formats) = 20

\* ---- C10
Did(e) == \E i \in 1..Len(auth) : auth[i] = e

IsSet(x) == x # None /\ x # Some("")

\* token.json holds stored credentials.
StoredLoaded == token_file # None /\ Val(token_file) # MalformedToken

StoredValid == StoredLoaded /\ Val(token_file).valid

StoredRefreshable ==
    /\ StoredLoaded
    /\ ~Val(token_file).valid
    /\ Val(token_file).expired
    /\ IsSet(Val(token_file).refresh_token)

=============================================================================
